---- MODULE Spec2Model ----
(***************************************************************************)
(* A model of builder/component/pacman.py: the repository registry and the *)
(* mirror resolution of Pacman.init_repos / Pacman.add_repo, the rendering *)
(* of the repository sections (append_repos / append_config), the keyring  *)
(* initialisation (init_keyring) and the keyring-package trust pipeline    *)
(* (find_package_file / trust_keyring_pkg / add_trust_keyring_pkg).        *)
(*                                                                         *)
(* Python strings that the code slices, searches or compares are sequences *)
(* of one-character strings, so that startswith, slicing, concatenation,   *)
(* "in" and endswith are computed and not assumed.  Python dicts are       *)
(* functions whose DOMAIN is the set of keys that are present.             *)
(***************************************************************************)
EXTENDS Integers, Sequences, FiniteSets, TLC

VARIABLES
    config,     \* self.config: the "pacman" mapping of the configuration
    mirrors,    \* ctx.get("mirrors", []): the mirror catalog
    caches,     \* self.caches, as init_cache leaves it
    repos,      \* self.repos: the repository registry
    pc,         \* "new" before init_repos has run, then "ready" or "failed"
    err,        \* the exception the last operation raised, or NoError
    nInit,      \* how many declarations init_repos has registered
    adds,       \* how many direct add_repo calls were made
    lines,      \* the list of lines the last rendering produced
    call,       \* the last operation and its inputs
    gpgcheck,   \* ctx.gpgcheck
    trustdb,    \* whether <keyring>/trustdb.gpg exists
    coreDb,     \* whether var/lib/pacman/sync/core.db exists under the root
    extCalls,   \* the external commands run so far, with their exit status
    dirs,       \* the directories of the file system (paths)
    files,      \* the regular files of the file system (paths)
    cacheFiles, \* per cache directory, the package file names it holds
    archives,   \* per package file name, the entry pathnames of the archive
    written     \* the files the last trust operation opened for writing

vars == <<config, mirrors, caches, repos, pc, err, nInit, adds, lines, call,
          gpgcheck, trustdb, coreDb, extCalls, dirs, files, cacheFiles,
          archives, written>>

keyVars == <<gpgcheck, trustdb, coreDb, extCalls>>
fsVars == <<dirs, files, cacheFiles, archives, written>>

(***************************************************************************)
(* Bounds of the model.                                                    *)
(***************************************************************************)
MaxRepos == 2      \* repository declarations in the configuration
MaxAdds == 1       \* direct add_repo calls after init_repos
MaxEntries == 2    \* entries of a package archive
MaxPkgNames == 2   \* package names given to add_trust_keyring_pkg

(***************************************************************************)
(* Strings.                                                                *)
(***************************************************************************)
None == <<"None">>
NoError == "none"

StartsWith(s, p) == Len(p) <= Len(s) /\ SubSeq(s, 1, Len(p)) = p
EndsWith(s, p) == Len(p) <= Len(s) /\ SubSeq(s, Len(s) - Len(p) + 1, Len(s)) = p
Drop(s, n) == SubSeq(s, n + 1, Len(s))
HasChar(s, c) == \E i \in 1..Len(s) : s[i] = c
Contains(s, sub) == \E i \in 0..(Len(s) - Len(sub)) : SubSeq(s, i + 1, i + Len(sub)) = sub

RECURSIVE Split(_, _)
Split(s, c) ==
    IF ~HasChar(s, c) THEN <<s>>
    ELSE LET k == CHOOSE i \in 1..Len(s) :
                      s[i] = c /\ \A j \in 1..(i - 1) : s[j] # c
         IN <<SubSeq(s, 1, k - 1)>> \o Split(Drop(s, k), c)

RECURSIVE Concat(_)
Concat(ss) == IF ss = <<>> THEN <<>> ELSE Head(ss) \o Concat(Tail(ss))

Range(s) == {s[i] : i \in 1..Len(s)}


(***************************************************************************)
(* The configuration the model draws from.                                 *)
(***************************************************************************)
DEFAULT_PRIORITY == 10000
TgtArch == <<"x", "8">>
LocalName == <<"l", "o", "c", "a", "l">>
VarRepo == <<"$", "r", "e", "p", "o">>
VarArch == <<"$", "a", "r", "c", "h">>

T1 == <<"h", "/">> \o VarRepo
T2 == <<"g", "/">> \o VarArch
T3 == <<"h", "/", "z">>
UrlList == <<"u">>
UrlKey == <<"p">>
KeyId == <<"K">>

Declarations ==
    { ("name" :> <<"c">>) @@ ("server" :> T1),
      ("name" :> <<"e">>) @@ ("priority" :> 1) @@ ("server" :> T2),
      ("name" :> <<"c">>) @@ ("priority" :> 1) @@ ("server" :> T1)
          @@ ("mirrorlist" :> UrlList),
      ("name" :> <<"e">>) @@ ("server" :> T3) @@ ("servers" :> <<T2, T1>>),
      ("name" :> <<"c">>) @@ ("servers" :> <<T1, T2>>),
      ("name" :> <<"c">>) @@ ("priority" :> 1),
      ("name" :> <<"e">>) @@ ("priority" :> 0) @@ ("server" :> T3)
          @@ ("publickey" :> UrlKey) @@ ("keyid" :> KeyId),
      ("name" :> <<"c">>) @@ ("server" :> T1) @@ ("publickey" :> UrlKey),
      ("name" :> <<"e">>) @@ ("priority" :> 1) @@ ("server" :> T3)
          @@ ("keyid" :> KeyId) @@ ("mirrorlist" :> UrlList),
      ("name" :> LocalName) @@ ("server" :> T1),
      ("name" :> <<"a", "/", "b">>) @@ ("server" :> T1),
      ("name" :> <<>>) @@ ("server" :> T1),
      ("server" :> T1) }

SeqsUpTo(S, n) == UNION {[1..k -> S] : k \in 0..n}

Configs ==
    { [x \in {} |-> x] } \cup { ("repo" :> ds) : ds \in SeqsUpTo(Declarations, MaxRepos) }

Mapping(o, m) == ("original" :> o) @@ ("mirror" :> m)
Mirror1 == ("name" :> <<"m", "1">>) @@ ("repos" :> << Mapping(<<"h", "/">>, <<"m", "/">>) >>)
Mirror2 ==
    ("name" :> <<"m", "2">>)
    @@ ("repos" :> << Mapping(<<>>, <<"n", "/">>), Mapping(<<"h", "/", "c">>, <<"k">>) >>)

Mirror3 == ("name" :> <<"m", "3">>) @@ ("repos" :> << Mapping(<<"h", "/", "c">>, <<"k">>) >>)

Catalogs ==
    { <<>>, <<Mirror1>>, <<Mirror1, Mirror2>>, <<Mirror3, Mirror1>>,
      << ("repos" :> <<>>) >>,
      << ("name" :> <<"m", "4">>) >>,
      << Mirror1, ("name" :> <<"m", "4">>) @@ ("repos" :> << ("original" :> <<"h">>) >>) >>,
      << ("name" :> <<"m", "4">>) @@ ("repos" :> << ("mirror" :> <<"h">>) >>) >> }

(***************************************************************************)
(* PacmanRepoServer and PacmanRepo.                                        *)
(***************************************************************************)
PacmanRepoServer(name, url, mirror) == [name |-> name, url |-> url, mirror |-> mirror]

PacmanRepo(name) ==
    [name |-> name, priority |-> DEFAULT_PRIORITY, servers |-> <<>>,
     mirrorlist |-> None, publickey |-> None, keyid |-> None]

\* "if not x" for a string that may be None
Falsy(s) == s = None \/ s = <<>>

(***************************************************************************)
(* resolve_simple_values(template, {"arch": ..., "repo": ...}): every      *)
(* "$repo" becomes the repository name, every "$arch" the architecture.    *)
(***************************************************************************)
RECURSIVE resolve_simple_values(_, _, _)
resolve_simple_values(s, arch, repo) ==
    IF s = <<>> THEN <<>>
    ELSE IF StartsWith(s, VarRepo)
         THEN repo \o resolve_simple_values(Drop(s, Len(VarRepo)), arch, repo)
    ELSE IF StartsWith(s, VarArch)
         THEN arch \o resolve_simple_values(Drop(s, Len(VarArch)), arch, repo)
    ELSE <<Head(s)>> \o resolve_simple_values(Tail(s), arch, repo)

(***************************************************************************)
(* add_repo: validate, append, sort by priority (list.sort is stable).     *)
(* Every registered repository also carries seq, the number of the         *)
(* insertion that put it in the registry (the identity of the object).     *)
(***************************************************************************)
\* line 293 with an unstable sort: r goes before the repositories of its priority
InsertUnstable(sorted, r) ==
    LET k == Cardinality({i \in 1..Len(sorted) : sorted[i].priority < r.priority})
    IN SubSeq(sorted, 1, k) \o <<r>> \o SubSeq(sorted, k + 1, Len(sorted))

InsertStable(sorted, r) ==
    LET k == Cardinality({i \in 1..Len(sorted) : sorted[i].priority <= r.priority})
    IN SubSeq(sorted, 1, k) \o <<r>> \o SubSeq(sorted, k + 1, Len(sorted))

RECURSIVE SortByPriority(_)
SortByPriority(s) ==
    IF s = <<>> THEN <<>>
    ELSE InsertStable(SortByPriority(SubSeq(s, 1, Len(s) - 1)), s[Len(s)])

BadRepo(repo) ==
    \/ DOMAIN repo = {}
    \/ Falsy(repo.name)
    \/ Len(repo.servers) <= 0

add_repo(reg, repo) ==
    IF BadRepo(repo)
    THEN [err |-> "ArchBuilderConfigError: bad repo", repos |-> reg]
    ELSE [err |-> NoError,
          repos |-> SortByPriority(Append(reg, repo @@ ("seq" :> Len(reg) + 1)))]

(***************************************************************************)
(* init_repos.                                                             *)
(***************************************************************************)
\* lines 328-335: the configured original URL templates of a declaration.
\* Line 333 extends the list with repo["server"], a string, whose elements
\* are its characters; without a "server" key the lookup raises KeyError.
ConfiguredServers(decl) ==
    LET s1 == IF "server" \in DOMAIN decl THEN <<decl["server"]>> ELSE <<>>
    IN IF "servers" \notin DOMAIN decl THEN [err |-> NoError, servers |-> s1]
       ELSE IF "server" \notin DOMAIN decl
            THEN [err |-> "KeyError: 'server'", servers |-> <<>>]
       ELSE [err |-> NoError,
             servers |-> s1 \o [i \in 1..Len(decl["server"]) |-> <<decl["server"][i]>>]]

\* lines 338-342
ResolveOriginals(servers, name) ==
    [i \in 1..Len(servers) |-> resolve_simple_values(servers[i], TgtArch, name)]

\* lines 355-363: one mirror server per original URL the mapping matches
RECURSIVE MappingServers(_, _, _)
MappingServers(mname, mapping, originals) ==
    IF originals = <<>> THEN <<>>
    ELSE LET original == Head(originals)
             rest == MappingServers(mname, mapping, Tail(originals))
         IN IF StartsWith(original, mapping["original"])
            THEN LET path == Drop(original, Len(mapping["original"]))
                     real_url == mapping["mirror"] \o path
                 IN <<PacmanRepoServer(mname, real_url, TRUE)>> \o rest
            ELSE rest

\* lines 350-363: the mappings of one mirror entry, from mapping j on
RECURSIVE MirrorRepos(_, _, _, _)
MirrorRepos(mname, maps, j, originals) ==
    IF j > Len(maps) THEN [err |-> NoError, servers |-> <<>>]
    ELSE IF "original" \notin DOMAIN maps[j]
         THEN [err |-> "ArchBuilderConfigError: original url not set", servers |-> <<>>]
    ELSE IF "mirror" \notin DOMAIN maps[j]
         THEN [err |-> "ArchBuilderConfigError: mirror url not set", servers |-> <<>>]
    ELSE LET here == MappingServers(mname, maps[j], originals)
             rest == MirrorRepos(mname, maps, j + 1, originals)
         IN [err |-> rest.err, servers |-> here \o rest.servers]

\* lines 345-363 with a break after the first mirror entry that matches:
\* what the loop would do if only the first matching mirror were taken
RECURSIVE MirrorServersFirstMatch(_, _, _)
MirrorServersFirstMatch(ms, i, originals) ==
    IF i > Len(ms) THEN [err |-> NoError, servers |-> <<>>]
    ELSE IF "name" \notin DOMAIN ms[i]
         THEN [err |-> "ArchBuilderConfigError: mirror name not set", servers |-> <<>>]
    ELSE IF "repos" \notin DOMAIN ms[i]
         THEN [err |-> "ArchBuilderConfigError: repos list not set", servers |-> <<>>]
    ELSE LET here == MirrorRepos(ms[i]["name"], ms[i]["repos"], 1, originals)
         IN IF here.err # NoError \/ here.servers # <<>> THEN here
            ELSE MirrorServersFirstMatch(ms, i + 1, originals)

\* lines 345-363: the mirror servers of a repository, from mirror entry i on
RECURSIVE MirrorServers(_, _, _)
MirrorServers(ms, i, originals) ==
    IF i > Len(ms) THEN [err |-> NoError, servers |-> <<>>]
    ELSE IF "name" \notin DOMAIN ms[i]
         THEN [err |-> "ArchBuilderConfigError: mirror name not set", servers |-> <<>>]
    ELSE IF "repos" \notin DOMAIN ms[i]
         THEN [err |-> "ArchBuilderConfigError: repos list not set", servers |-> <<>>]
    ELSE LET here == MirrorRepos(ms[i]["name"], ms[i]["repos"], 1, originals)
         IN IF here.err # NoError THEN here
            ELSE LET rest == MirrorServers(ms, i + 1, originals)
                 IN [err |-> rest.err, servers |-> here.servers \o rest.servers]

\* lines 365-370
OriginalServers(originals) ==
    [i \in 1..Len(originals) |-> PacmanRepoServer(None, originals[i], FALSE)]

\* lines 303-370: the PacmanRepo of one declaration, or the exception
BuildRepo(decl, ms) ==
    IF "name" \notin DOMAIN decl
    THEN [err |-> "ArchBuilderConfigError: repo name not set"]
    ELSE IF decl["name"] = LocalName \/ HasChar(decl["name"], "/")
    THEN [err |-> "ArchBuilderConfigError: bad repo name"]
    ELSE IF "publickey" \in DOMAIN decl /\ "keyid" \notin DOMAIN decl
    THEN [err |-> "ArchBuilderConfigError: publickey is provided without keyid"]
    ELSE LET conf == ConfiguredServers(decl)
         IN IF conf.err # NoError THEN [err |-> conf.err]
            ELSE IF Len(conf.servers) <= 0
            THEN [err |-> "ArchBuilderConfigError: no any original repo url found"]
            ELSE LET originals == ResolveOriginals(conf.servers, decl["name"])
                     mirrored == MirrorServers(ms, 1, originals)
                 IN IF mirrored.err # NoError THEN [err |-> mirrored.err]
                    ELSE [err |-> NoError,
                          repo |->
                            [name |-> decl["name"],
                             priority |-> IF "priority" \in DOMAIN decl
                                          THEN decl["priority"] ELSE DEFAULT_PRIORITY,
                             servers |-> mirrored.servers \o OriginalServers(originals),
                             mirrorlist |-> IF "mirrorlist" \in DOMAIN decl
                                            THEN decl["mirrorlist"] ELSE None,
                             publickey |-> IF "publickey" \in DOMAIN decl
                                           THEN decl["publickey"] ELSE None,
                             keyid |-> IF "keyid" \in DOMAIN decl
                                       THEN decl["keyid"] ELSE None]]

\* lines 302-372: the declarations from number i on; n counts the registered
RECURSIVE InitReposFrom(_, _, _, _)
InitReposFrom(decls, i, ms, reg) ==
    IF i > Len(decls) THEN [err |-> NoError, repos |-> reg, n |-> i - 1]
    ELSE LET built == BuildRepo(decls[i], ms)
         IN IF built.err # NoError
            THEN [err |-> built.err, repos |-> reg, n |-> i - 1]
            ELSE LET added == add_repo(reg, built.repo)
                 IN IF added.err # NoError
                    THEN [err |-> added.err, repos |-> reg, n |-> i - 1]
                    ELSE InitReposFrom(decls, i + 1, ms, added.repos)

\* lines 295-372
init_repos(cfg, ms, reg) ==
    IF "repo" \notin DOMAIN cfg
    THEN [err |-> "ArchBuilderConfigError: no repos found in config", repos |-> reg, n |-> 0]
    ELSE InitReposFrom(cfg["repo"], 1, ms, reg)

(***************************************************************************)
(* Rendering.  A line is the tuple of the pieces its f-string joins: the   *)
(* literal text (a string) and the values put between (strings of          *)
(* characters, or opaque paths).                                           *)
(***************************************************************************)
WorkDir == "/work"
RootDir == "/work/rootfs"
HostCache == "/var/cache/pacman/pkg"
WorkCache == "/work/packages"
RootCache == "/work/rootfs/var/cache/pacman/pkg"

\* lines 107-114 without the else branch: the original servers left out
ServerLinesMirrorsOnly(servers) ==
    Concat([i \in 1..Len(servers) |->
        IF servers[i].mirror
        THEN << <<"# Mirror ", servers[i].name, "\n">>,
                <<"Server = ", servers[i].url, "\n">> >>
        ELSE << >>])

\* lines 107-114
ServerLines(servers) ==
    Concat([i \in 1..Len(servers) |->
        << IF servers[i].mirror
           THEN <<"# Mirror ", servers[i].name, "\n">>
           ELSE <<"# Original Repo\n">>,
           <<"Server = ", servers[i].url, "\n">> >>])

\* lines 103-114
RepoLines(repo, rootfs) ==
    << <<"[", repo.name, "]\n">> >>
    \o (IF rootfs /\ repo.mirrorlist # None
        THEN << <<"Include = /etc/pacman.d/", repo.name, "-mirrorlist\n">> >>
        ELSE ServerLines(repo.servers))

\* lines 98-114
append_repos(ls, reg, rootfs) ==
    ls \o Concat([i \in 1..Len(reg) |-> RepoLines(reg[i], rootfs)])

\* lines 116-136
append_config(ls, reg, cs, gpg) ==
    LET siglevel == IF gpg THEN "Required DatabaseOptional" ELSE "Never"
    IN append_repos(
        ls \o << <<"[options]\n">> >>
           \o [i \in 1..Len(cs) |-> <<"CacheDir = ", cs[i], "\n">>]
           \o << <<"RootDir = ", RootDir, "\n">>,
                 <<"GPGDir = ", RootDir, "/etc/pacman.d/gnupg", "\n">>,
                 <<"LogFile = ", WorkDir, "/pacman.log", "\n">>,
                 <<"HoldPkg = pacman glibc\n">>,
                 <<"Architecture = ", TgtArch, "\n">>,
                 <<"UseSyslog\n">>,
                 <<"Color\n">>,
                 <<"CheckSpace\n">>,
                 <<"VerbosePkgLists\n">>,
                 <<"ParallelDownloads = 5\n">>,
                 <<"SigLevel = ", siglevel, "\n">>,
                 <<"LocalFileSigLevel = Optional\n">> >>,
        reg, FALSE)

(***************************************************************************)
(* The repository specification: init_repos once, then add_repo and the    *)
(* renderings in any order.                                                *)
(***************************************************************************)
ServerM == PacmanRepoServer(<<"m", "1">>, <<"m", "/", "y">>, TRUE)
ServerO == PacmanRepoServer(None, <<"h", "/", "y">>, FALSE)

AddInputs ==
    { [x \in {} |-> x],
      [PacmanRepo(None) EXCEPT !.servers = <<ServerO>>],
      [PacmanRepo(<<"c">>) EXCEPT !.priority = 1],
      [PacmanRepo(<<"y">>) EXCEPT !.priority = 1, !.servers = <<ServerM, ServerO>>],
      [PacmanRepo(<<"c">>) EXCEPT !.servers = <<ServerO>>, !.mirrorlist = UrlList],
      [PacmanRepo(LocalName) EXCEPT !.priority = 0, !.servers = <<ServerO>>] }

NoCall == [op |-> "none"]

InitContext ==
    /\ \/ caches = <<HostCache, WorkCache, RootCache>> /\ gpgcheck = TRUE
       \/ caches = <<WorkCache, RootCache>> /\ gpgcheck = FALSE
    /\ trustdb = FALSE
    /\ coreDb = FALSE
    /\ extCalls = <<>>

InitNoFs ==
    /\ dirs = {}
    /\ files = {}
    /\ cacheFiles = <<>>
    /\ archives = <<>>
    /\ written = {}

InitRegistry ==
    /\ config \in Configs
    /\ mirrors \in Catalogs
    /\ repos = <<>>
    /\ pc = "new"
    /\ err = NoError
    /\ nInit = 0
    /\ adds = 0
    /\ lines = <<>>
    /\ call = NoCall

Init == InitRegistry /\ InitContext /\ InitNoFs

InitRepos ==
    /\ pc = "new"
    /\ LET r == init_repos(config, mirrors, repos)
       IN /\ repos' = r.repos
          /\ err' = r.err
          /\ nInit' = r.n
          /\ pc' = IF r.err = NoError THEN "ready" ELSE "failed"
    /\ call' = [op |-> "init_repos"]
    /\ lines' = <<>>
    /\ UNCHANGED <<config, mirrors, caches, adds>>
    /\ UNCHANGED keyVars
    /\ UNCHANGED fsVars

AddRepo ==
    /\ pc = "ready"
    /\ adds < MaxAdds
    /\ \E repo \in AddInputs :
          LET r == add_repo(repos, repo)
          IN /\ repos' = r.repos
             /\ err' = r.err
             /\ call' = [op |-> "add_repo", repo |-> repo]
    /\ adds' = adds + 1
    /\ lines' = <<>>
    /\ UNCHANGED <<config, mirrors, caches, pc, nInit>>
    /\ UNCHANGED keyVars
    /\ UNCHANGED fsVars

AppendRepos ==
    /\ pc = "ready"
    /\ \E rootfs \in BOOLEAN :
          /\ lines' = append_repos(<<>>, repos, rootfs)
          /\ call' = [op |-> "append_repos", rootfs |-> rootfs]
    /\ err' = NoError
    /\ UNCHANGED <<config, mirrors, caches, repos, pc, nInit, adds>>
    /\ UNCHANGED keyVars
    /\ UNCHANGED fsVars

InitConfig ==
    /\ pc = "ready"
    /\ lines' = append_config(<<>>, repos, caches, gpgcheck)
    /\ call' = [op |-> "init_config"]
    /\ err' = NoError
    /\ UNCHANGED <<config, mirrors, caches, repos, pc, nInit, adds>>
    /\ UNCHANGED keyVars
    /\ UNCHANGED fsVars

Next == InitRepos \/ AddRepo \/ AppendRepos \/ InitConfig

Spec == Init /\ [][Next]_vars

(***************************************************************************)
(* Claims about the registry and the rendering.                            *)
(***************************************************************************)
\* the repositories init_repos registered: declaration k is insertion k
FromInit(r) == r.seq <= nInit

Registered == Range(repos)

OriginalUrls(servers) ==
    LET orig == SelectSeq(servers, LAMBDA sv : ~sv.mirror)
    IN [i \in 1..Len(orig) |-> orig[i].url]

\* the (mirror entry, mapping, original URL) triples that match
Triples(origs) ==
    UNION { { <<i, j, o>> : j \in 1..Len(mirrors[i]["repos"]), o \in 1..Len(origs) } :
            i \in 1..Len(mirrors) }

Matches(origs) ==
    {t \in Triples(origs) :
        StartsWith(origs[t[3]], mirrors[t[1]]["repos"][t[2]]["original"])}

LexLess(t, u) ==
    \/ t[1] < u[1]
    \/ t[1] = u[1] /\ t[2] < u[2]
    \/ t[1] = u[1] /\ t[2] = u[2] /\ t[3] < u[3]

\* C1: the servers init_repos builds for a repository are the mirror servers
\* first, one per matching (mirror entry, mapping, original URL) in catalog
\* order with url = mirror prefix + remaining suffix, then the originals.
C1_MirrorsBeforeOriginals ==
    \A r \in Registered :
        FromInit(r) =>
            LET origs == OriginalUrls(r.servers)
                M == Matches(origs)
                nm == Cardinality(M)
                Rank(t) == 1 + Cardinality({u \in M : LexLess(u, t)})
            IN /\ Len(r.servers) = nm + Len(origs)
               /\ \A p \in 1..Len(r.servers) : r.servers[p].mirror <=> p <= nm
               /\ \A t \in M :
                    LET mapping == mirrors[t[1]]["repos"][t[2]]
                    IN r.servers[Rank(t)] =
                         [name |-> mirrors[t[1]]["name"],
                          url |-> mapping["mirror"]
                                  \o Drop(origs[t[3]], Len(mapping["original"])),
                          mirror |-> TRUE]

\* a repository that two mirror entries match, and one that none matches
C1_Witness ==
    /\ \E r \in Registered :
          /\ FromInit(r)
          /\ \E p, q \in 1..Len(r.servers) :
                /\ r.servers[p].mirror /\ r.servers[q].mirror
                /\ r.servers[p].name # r.servers[q].name
    /\ \E r \in Registered :
          FromInit(r) /\ \A p \in 1..Len(r.servers) : ~r.servers[p].mirror

ConfigErrors ==
    { "ArchBuilderConfigError: no repos found in config",
      "ArchBuilderConfigError: repo name not set",
      "ArchBuilderConfigError: bad repo name",
      "ArchBuilderConfigError: publickey is provided without keyid",
      "ArchBuilderConfigError: no any original repo url found",
      "ArchBuilderConfigError: mirror name not set",
      "ArchBuilderConfigError: repos list not set",
      "ArchBuilderConfigError: original url not set",
      "ArchBuilderConfigError: mirror url not set",
      "ArchBuilderConfigError: bad repo" }

\* the URL templates a declaration configures, server first, then servers
ConfiguredTemplates(decl) ==
    (IF "server" \in DOMAIN decl THEN <<decl["server"]>> ELSE <<>>)
    \o (IF "servers" \in DOMAIN decl THEN decl["servers"] ELSE <<>>)

\* C2: a declaration that configures URLs through server, servers or both
\* ends with one original server per configured template, in configuration
\* order, placeholders substituted; only a declaration with neither key
\* fails for want of an original URL.
C2_OriginalsPerConfiguredUrl ==
    /\ \A r \in Registered :
          FromInit(r) =>
            LET decl == config["repo"][r.seq]
                want == ResolveOriginals(ConfiguredTemplates(decl), decl["name"])
            IN OriginalUrls(r.servers) = want
    /\ (pc = "failed" /\ "repo" \in DOMAIN config) =>
          LET decl == config["repo"][nInit + 1]
          IN IF ConfiguredTemplates(decl) = <<>>
             THEN err \in ConfigErrors
             ELSE err \in ConfigErrors
                      \ {"ArchBuilderConfigError: no any original repo url found"}

SortedByPriority ==
    \A i, j \in 1..Len(repos) :
        i < j => \/ repos[i].priority < repos[j].priority
                 \/ repos[i].priority = repos[j].priority /\ repos[i].seq < repos[j].seq

RejectedLeavesRegistry ==
    (adds' = adds + 1 /\ err' # NoError) => repos' = repos

\* C3: the registry is sorted by ascending priority, repositories of equal
\* priority in the order they were added, and a rejected add_repo call
\* leaves the registry as it was.
C3_RegistrySorted == [](SortedByPriority) /\ [][RejectedLeavesRegistry]_vars

\* an add_repo call has put a repository in front of two of equal priority
C3_Witness ==
    /\ call.op = "add_repo"
    /\ err = NoError
    /\ \E i, j, k \in 1..Len(repos) :
          /\ i < j /\ j < k
          /\ repos[i].seq > repos[k].seq
          /\ repos[j].priority = repos[k].priority

IsRender == call.op \in {"append_repos", "init_config"}
RenderedRootfs == call.op = "append_repos" /\ call.rootfs

Headers == {p \in 1..Len(lines) : lines[p][1] = "["}
HeaderAt(k) == CHOOSE p \in Headers : Cardinality({q \in Headers : q < p}) = k - 1
SectionEnd(k) == IF k = Cardinality(Headers) THEN Len(lines) ELSE HeaderAt(k + 1) - 1
SectionBody(k) == SubSeq(lines, HeaderAt(k) + 1, SectionEnd(k))
Kind(line) == line[1]

\* C7: the sections come in registry order; a repository with mirrorlist
\* rendered for the rootfs has exactly an Include line and no Server line,
\* every other section one Server line per server, in server order, each
\* after a comment line that tells mirror from original.
C7_Sections ==
    IsRender =>
        /\ Cardinality(Headers) = Len(repos)
        /\ \A p \in 1..Len(lines) :
              (Headers # {} /\ \A h \in Headers : p < h) =>
                  Kind(lines[p]) \notin {"Server = ", "Include = /etc/pacman.d/"}
        /\ \A k \in 1..Len(repos) :
              LET body == SectionBody(k)
                  r == repos[k]
              IN /\ lines[HeaderAt(k)] = <<"[", r.name, "]\n">>
                 /\ IF RenderedRootfs /\ r.mirrorlist # None
                    THEN body = << <<"Include = /etc/pacman.d/", r.name, "-mirrorlist\n">> >>
                    ELSE /\ Len(body) = 2 * Len(r.servers)
                         /\ \A i \in 1..Len(r.servers) :
                              /\ body[2 * i] = <<"Server = ", r.servers[i].url, "\n">>
                              /\ IF r.servers[i].mirror
                                 THEN Kind(body[2 * i - 1]) = "# Mirror "
                                 ELSE body[2 * i - 1] = <<"# Original Repo\n">>

\* a rootfs rendering with an Include section and a section of servers
C7_Witness ==
    /\ RenderedRootfs
    /\ \E k \in 1..Len(repos) : repos[k].mirrorlist # None
    /\ \E k \in 1..Len(repos) :
          /\ repos[k].mirrorlist = None
          /\ \E i, j \in 1..Len(repos[k].servers) :
                repos[k].servers[i].mirror /\ ~repos[k].servers[j].mirror

\* C9: every repository of the registry has a non-empty name that is not
\* "local" and holds no "/", and no two repositories share a name.
C9_NamesValidUnique ==
    /\ \A r \in Registered :
          ~Falsy(r.name) /\ r.name # LocalName /\ ~HasChar(r.name, "/")
    /\ \A i, j \in 1..Len(repos) : i # j => repos[i].name # repos[j].name

(***************************************************************************)
(* External commands.  ctx.run_external returns the exit status; the model *)
(* lets the external call number failAt (0: none) return 1, every other 0. *)
(* A run is the record of the calls made so far and the exception raised.  *)
(***************************************************************************)
Unbound == <<"unbound">>

KeyringDir == <<RootDir, "/etc/pacman.d/gnupg">>
ConfigFile == <<WorkDir, "/pacman.conf">>
MirrorlistFile(name) == <<WorkDir, "/etc/pacman.d/", name, "-mirrorlist">>
PublicKeyFile(name) == <<WorkDir, "/", name, ".pub">>

\* ctx.run_external followed by "if ret != 0: raise OSError"
RunExternal(run, cmds, failAt) ==
    IF run.err # NoError THEN run
    ELSE LET ret == IF Len(run.calls) + 1 = failAt THEN 1 ELSE 0
         IN [run EXCEPT !.calls = Append(@, [cmds |-> cmds, ret |-> ret]),
                        !.err = IF ret # 0
                                THEN "OSError: " \o cmds[1] \o " failed"
                                ELSE NoError]

\* lines 184-197
pacman_key(run, args, failAt) ==
    RunExternal(run, <<"pacman-key", <<"--gpgdir=", KeyringDir>>,
                       <<"--config=", ConfigFile>>>> \o args, failAt)

\* lines 199-210
pacman(run, args, failAt) ==
    RunExternal(run, <<"pacman", "--noconfirm", <<"--root=", RootDir>>,
                       <<"--config=", ConfigFile>>>> \o args, failAt)

\* lines 467-478, for a key given as a string
recv_keys(run, keys, failAt) == pacman_key(run, <<"--recv-keys", keys>>, failAt)

\* lines 480-484
lsign_key(run, key, failAt) == pacman_key(run, <<"--lsign-key", key>>, failAt)

\* line 155: the target of the mirrorlist download is the local keypath
MirrorlistTarget(mirrorlist, keypath) == keypath

\* lines 153-157
KeyringMirrorlist(run, repo, failAt) ==
    IF run.err # NoError \/ repo.mirrorlist = None THEN run
    ELSE LET target == MirrorlistTarget(MirrorlistFile(repo.name), run.keypath)
         IN IF target = Unbound
            THEN [run EXCEPT !.err = "UnboundLocalError: keypath"]
            ELSE RunExternal(run, <<"wget", repo.mirrorlist, "-O", target>>, failAt)

\* lines 158-167
KeyringKeys(run, repo, failAt) ==
    IF run.err # NoError THEN run
    ELSE IF repo.publickey # None
    THEN LET keypath == PublicKeyFile(repo.name)
             r0 == [run EXCEPT !.keypath = keypath]
             r1 == RunExternal(r0, <<"wget", repo.publickey, "-O", keypath>>, failAt)
             r2 == pacman_key(r1, <<"--add", keypath>>, failAt)
         IN lsign_key(r2, repo.keyid, failAt)
    ELSE IF repo.keyid # None
    THEN lsign_key(recv_keys(run, repo.keyid, failAt), repo.keyid, failAt)
    ELSE run

\* lines 152-167: the repositories from number i on
RECURSIVE KeyringRepos(_, _, _, _)
KeyringRepos(run, reg, i, failAt) ==
    IF i > Len(reg) \/ run.err # NoError THEN run
    ELSE KeyringRepos(
            KeyringKeys(KeyringMirrorlist(run, reg[i], failAt), reg[i], failAt),
            reg, i + 1, failAt)

\* lines 138-167
init_keyring(reg, gpg, hasTrustdb, failAt) ==
    LET run0 == [calls |-> <<>>, err |-> NoError, keypath |-> Unbound]
    IN IF ~gpg \/ hasTrustdb THEN run0
       ELSE KeyringRepos(pacman_key(run0, <<"--init">>, failAt), reg, 1, failAt)

\* the external calls a run of init_keyring makes when none fails
KeyringCalls(reg, gpg, hasTrustdb) == Len(init_keyring(reg, gpg, hasTrustdb, 0).calls)

InitKeyringContext ==
    /\ caches = <<WorkCache, RootCache>>
    /\ gpgcheck \in BOOLEAN
    /\ trustdb \in BOOLEAN
    /\ coreDb = FALSE
    /\ extCalls = <<>>

InitKeyringSpec == InitRegistry /\ InitKeyringContext /\ InitNoFs

InitKeyring ==
    /\ pc = "ready"
    /\ call.op = "init_repos"
    /\ \E failAt \in 0..KeyringCalls(repos, gpgcheck, trustdb) :
          LET run == init_keyring(repos, gpgcheck, trustdb, failAt)
          IN /\ extCalls' = run.calls
             /\ err' = run.err
             /\ call' = [op |-> "init_keyring", failAt |-> failAt]
    /\ UNCHANGED <<config, mirrors, caches, repos, pc, nInit, adds, lines>>
    /\ UNCHANGED <<gpgcheck, trustdb, coreDb>>
    /\ UNCHANGED fsVars

NextKeyring == InitRepos \/ InitKeyring

SpecKeyring == InitKeyringSpec /\ [][NextKeyring]_vars

WithMirrorlist == SelectSeq(repos, LAMBDA r : r.mirrorlist # None)
MirrorlistDownloads ==
    SelectSeq(extCalls, LAMBDA c : c.cmds[1] = "wget" /\ c.cmds[2] = UrlList)

\* C10: init_keyring downloads the mirrorlist URL of every repository that
\* has one to that repository's own mirrorlist file: the target is always
\* defined and is never a public-key file.
C10_MirrorlistTarget ==
    (call.op = "init_keyring" /\ gpgcheck /\ ~trustdb) =>
        /\ err # "UnboundLocalError: keypath"
        /\ Len(MirrorlistDownloads) <= Len(WithMirrorlist)
        /\ err = NoError => Len(MirrorlistDownloads) = Len(WithMirrorlist)
        /\ \A k \in 1..Len(MirrorlistDownloads) :
              k <= Len(WithMirrorlist) =>
                  MirrorlistDownloads[k].cmds[4] = MirrorlistFile(WithMirrorlist[k].name)

(***************************************************************************)
(* The file system of the trust pipeline.  A path is the sequence of its   *)
(* components from the root; dirs and files hold the paths that exist.     *)
(***************************************************************************)
Chars_keyrings == <<"k", "e", "y", "r", "i", "n", "g", "s">>
WorkPath == << <<"w">> >>
Target == WorkPath \o <<Chars_keyrings>>
TargetStr == <<"/", "w", "/">> \o Chars_keyrings
Keyring ==
    <<"u", "s", "r", "/", "s", "h", "a", "r", "e", "/", "p", "a", "c", "m", "a", "n", "/">>
    \o Chars_keyrings \o <<"/">>
DotGpg == <<".", "g", "p", "g">>

IsPrefix(p, q) == Len(p) <= Len(q) /\ SubSeq(q, 1, Len(p)) = p
Parent(p) == IF p = <<>> THEN <<>> ELSE SubSeq(p, 1, Len(p) - 1)

\* os.path.join(a, b) for a that does not end with "/"
PathJoin(a, b) == IF StartsWith(b, <<"/">>) THEN b ELSE a \o <<"/">> \o b

\* the kernel's walk of the components comps from the existing directory cur
RECURSIVE Walk(_, _, _, _)
Walk(cur, comps, ds, fs) ==
    IF comps = <<>> THEN [err |-> NoError, path |-> cur]
    ELSE LET c == Head(comps)
         IN IF c = <<>> \/ c = <<".">> THEN Walk(cur, Tail(comps), ds, fs)
            ELSE IF c = <<".", ".">> THEN Walk(Parent(cur), Tail(comps), ds, fs)
            ELSE IF Tail(comps) = <<>> THEN [err |-> NoError, path |-> Append(cur, c)]
            ELSE IF Append(cur, c) \in ds THEN Walk(Append(cur, c), Tail(comps), ds, fs)
            ELSE IF Append(cur, c) \in fs THEN [err |-> "NotADirectoryError", path |-> cur]
            ELSE [err |-> "FileNotFoundError", path |-> cur]

\* open(dest, "wb") of an absolute path: the file it creates or truncates
OpenForWrite(dest, ds, fs) ==
    LET w == Walk(<<>>, Split(dest, "/"), ds, fs)
    IN IF w.err # NoError THEN w
       ELSE IF w.path \in ds THEN [err |-> "IsADirectoryError", path |-> w.path]
       ELSE w

\* lines 502-509
find_package_file(cs, held, filename) ==
    LET hits == {i \in 1..Len(cs) : filename \in held[i]}
    IN IF hits = {} THEN None
       ELSE <<cs[CHOOSE i \in hits : \A j \in hits : i <= j], "/", filename>>

\* lines 486-500, for a list of names and a folder
pouplate_keys(run, names, folder, failAt) ==
    pacman_key(run, <<"--populate", "--populate-from", folder>> \o names, failAt)

\* lines 535-553: one archive entry.  The bytes, mode, uid and gid of the
\* entry (lines 549-553) do not decide where the file is written or which
\* identifier is collected, and are left out.
ExtractEntry(st, pn) ==
    IF st.err # NoError THEN st
    ELSE IF ~StartsWith(pn, Keyring) THEN st
    ELSE LET fn == Drop(pn, Len(Keyring))
         IN IF Len(fn) <= 0 THEN st
            ELSE LET names == IF EndsWith(fn, DotGpg)
                              THEN Append(st.names, SubSeq(fn, 1, Len(fn) - 4))
                              ELSE st.names
                     dest == PathJoin(TargetStr, fn)
                     f == OpenForWrite(dest, st.dirs, st.files)
                 IN IF f.err # NoError
                    THEN [st EXCEPT !.names = names, !.err = f.err]
                    ELSE [st EXCEPT !.names = names,
                                    !.files = @ \cup {f.path},
                                    !.written = @ \cup {f.path}]

\* lines 533-553
RECURSIVE ExtractFrom(_, _, _)
ExtractFrom(st, entries, i) ==
    IF i > Len(entries) THEN st
    ELSE ExtractFrom(ExtractEntry(st, entries[i]), entries, i + 1)

\* lines 523-526: the scratch directory is removed and made again
ResetTarget(st) ==
    [st EXCEPT !.dirs = {d \in @ : ~IsPrefix(Target, d)} \cup {Target},
               !.files = {f \in @ : ~IsPrefix(Target, f)}]

\* lines 511-556; st holds the file system, the external calls and the error
trust_keyring_pkg(st, pkg, gpg, cs, held, arch, failAt) ==
    IF st.err # NoError \/ ~gpg THEN st
    ELSE LET path == find_package_file(cs, held, pkg.filename)
             st1 == ResetTarget(st)
         IN IF path = None
            THEN [st1 EXCEPT !.err = "RuntimeError: package not found"]
            ELSE LET st2 == ExtractFrom([st1 EXCEPT !.names = <<>>],
                                        arch[pkg.filename], 1)
                 IN pouplate_keys(st2, st2.names, TargetStr, failAt)

(***************************************************************************)
(* The trust specification: one call of trust_keyring_pkg on a package     *)
(* whose archive, cache directories and scratch directory are drawn.       *)
(***************************************************************************)
PkgK == [name |-> <<"k">>, filename |-> "k-1-any.pkg.tar.zst"]
PkgJ == [name |-> <<"j">>, filename |-> "j-1-any.pkg.tar.zst"]

EntryNames ==
    { Keyring \o <<"a">> \o DotGpg,
      Keyring \o <<"b">>,
      Keyring,
      <<"e", "t", "c", "/", "x">> \o DotGpg,
      Keyring \o <<".", ".", "/", "e">> \o DotGpg,
      Keyring \o <<"/", "t">>,
      Keyring \o <<"d", "/", "k">> \o DotGpg }

Archives == SeqsUpTo(EntryNames, MaxEntries)

StaleFile == Append(Target, <<"o">> \o DotGpg)

InitNoRegistry ==
    /\ config = [x \in {} |-> x]
    /\ mirrors = <<>>
    /\ repos = <<>>
    /\ pc = "ready"
    /\ err = NoError
    /\ nInit = 0
    /\ adds = 0
    /\ lines = <<>>
    /\ call = NoCall

InitScratch ==
    \/ dirs = {<<>>, WorkPath} /\ files = {}
    \/ dirs = {<<>>, WorkPath, Target} /\ files = {}
    \/ dirs = {<<>>, WorkPath, Target} /\ files = {StaleFile}

InitTrust ==
    /\ InitNoRegistry
    /\ gpgcheck \in BOOLEAN
    /\ trustdb = TRUE
    /\ coreDb = TRUE
    /\ extCalls = <<>>
    /\ caches \in {<<HostCache, WorkCache, RootCache>>, <<WorkCache, RootCache>>}
    /\ \E S \in SUBSET (1..Len(caches)) :
          cacheFiles = [i \in 1..Len(caches) |-> IF i \in S THEN {PkgK.filename} ELSE {}]
    /\ InitScratch
    /\ \E a \in Archives : archives = (PkgK.filename :> a)
    /\ written = {}

TrustState == [dirs |-> dirs, files |-> files, written |-> {}, names |-> <<>>,
               calls |-> <<>>, err |-> NoError]

TrustKeyringPkg ==
    /\ call.op = "none"
    /\ \E failAt \in 0..1 :
          LET st == trust_keyring_pkg(TrustState, PkgK, gpgcheck, caches,
                                      cacheFiles, archives, failAt)
          IN /\ dirs' = st.dirs
             /\ files' = st.files
             /\ written' = st.written
             /\ extCalls' = st.calls
             /\ err' = st.err
    /\ call' = [op |-> "trust_keyring_pkg", pkg |-> PkgK, scratchBefore |-> Target \in dirs]
    /\ UNCHANGED <<config, mirrors, caches, repos, pc, nInit, adds, lines>>
    /\ UNCHANGED <<gpgcheck, trustdb, coreDb, cacheFiles, archives>>

NextTrust == TrustKeyringPkg

SpecTrust == InitTrust /\ [][NextTrust]_vars

Trusted == call.op = "trust_keyring_pkg"
InNoCache(pkg) == \A i \in 1..Len(caches) : pkg.filename \notin cacheFiles[i]
KeyToolCalls == SelectSeq(extCalls, LAMBDA c : c.cmds[1] = "pacman-key")

\* C4: with signature checking on and the archive in no cache directory the
\* call fails with a not-found error, the key tool is not invoked, and a
\* scratch directory absent before the call is absent after it.
C4_NotFoundLeavesNoScratch ==
    (Trusted /\ gpgcheck /\ InNoCache(call.pkg)) =>
        /\ err = "RuntimeError: package not found"
        /\ KeyToolCalls = <<>>
        /\ ~call.scratchBefore => Target \notin dirs

InScratch(p) == IsPrefix(Target, p) /\ Len(p) > Len(Target)
Qualifies(pn) == StartsWith(pn, Keyring) /\ Len(pn) > Len(Keyring)
Basename(s) == LET parts == Split(s, "/") IN parts[Len(parts)]

\* C5: whatever the entry pathnames, every file the call creates or writes
\* lies inside the scratch directory, and an entry outside the keyring
\* prefix or with an empty remainder is never written.
C5_WritesInsideScratch ==
    Trusted =>
        \A p \in written :
            /\ InScratch(p)
            /\ \E pn \in Range(archives[call.pkg.filename]) :
                  Qualifies(pn) /\ Basename(pn) = p[Len(p)]

Populates == SelectSeq(extCalls, LAMBDA c : c.cmds[1] = "pacman-key" /\ c.cmds[4] = "--populate")
PopulateNames(c) == SubSeq(c.cmds, 7, Len(c.cmds))
ScratchKeyFiles == {p \in files : InScratch(p) /\ EndsWith(p[Len(p)], DotGpg)}
StripExt(s) == SubSeq(s, 1, Len(s) - Len(DotGpg))

\* C6: the identifiers passed to the populate step are exactly the names of
\* the files extracted into the scratch directory that end with ".gpg",
\* the extension removed, none of them passed twice.
C6_IdentifiersExact ==
    (Trusted /\ Populates # <<>>) =>
        LET names == PopulateNames(Populates[1])
        IN /\ Range(names) = {StripExt(p[Len(p)]) : p \in ScratchKeyFiles}
           /\ \A i, j \in 1..Len(names) : i # j => names[i] # names[j]

(***************************************************************************)
(* lookup_package and add_trust_keyring_pkg.  The sync databases, the      *)
(* package group and the loadable package file are those of the pyalpm     *)
(* handle.                                                                 *)
(***************************************************************************)
Databases == << [name |-> <<"c">>, pkgs |-> {PkgK}], [name |-> <<"x">>, pkgs |-> {PkgJ}] >>
LocalDb == [name |-> LocalName, pkgs |-> {}]
Groups == [name |-> <<"g">>, pkgs |-> <<PkgK, PkgJ>>]
PkgFile == <<"k", ".", "p", "k", "g", ".", "t", "a", "r", ".", "z">>

\* db.get_pkg(name): the packages of db with that name
GetPkg(db, name) == {pk \in db.pkgs : pk.name = name}

\* lines 236-269
lookup_package(name) ==
    IF Contains(name, <<".", "p", "k", "g", ".", "t", "a", "r", ".">>)
    THEN IF name = PkgFile THEN [err |-> NoError, pkgs |-> <<PkgK>>]
         ELSE [err |-> "RuntimeError: load package failed", pkgs |-> <<>>]
    ELSE LET sp == Split(name, "/")
         IN IF Len(sp) = 2
            THEN LET known == {i \in 1..Len(Databases) : Databases[i].name = sp[1]}
                 IN IF known = {} /\ sp[1] # LocalName
                    THEN [err |-> "ValueError: database not found", pkgs |-> <<>>]
                    ELSE LET db == IF sp[1] = LocalName THEN LocalDb
                                   ELSE Databases[CHOOSE i \in known : TRUE]
                             found == GetPkg(db, sp[2])
                         IN IF found # {}
                            THEN [err |-> NoError, pkgs |-> <<CHOOSE pk \in found : TRUE>>]
                            ELSE [err |-> "ValueError: package not found", pkgs |-> <<>>]
            ELSE IF Len(sp) = 1
            THEN IF name = Groups.name THEN [err |-> NoError, pkgs |-> Groups.pkgs]
                 ELSE LET dbs == {i \in 1..Len(Databases) : GetPkg(Databases[i], name) # {}}
                      IN IF dbs # {}
                         THEN LET first == CHOOSE i \in dbs : \A j \in dbs : i <= j
                              IN [err |-> NoError,
                                  pkgs |-> <<CHOOSE pk \in GetPkg(Databases[first], name) : TRUE>>]
                         ELSE [err |-> "ValueError: package not found", pkgs |-> <<>>]
            ELSE [err |-> "ValueError: bad package name", pkgs |-> <<>>]

\* lines 458-465, without force
refresh(run, failAt) == pacman(run, <<"--sync", "--refresh">>, failAt)

\* lines 435-446
download(run, pkgs, hasCore, failAt) ==
    IF Len(pkgs) = 0 THEN run
    ELSE pacman(IF hasCore THEN run ELSE refresh(run, failAt),
                <<"--sync", "--downloadonly", "--nodeps", "--nodeps">> \o pkgs, failAt)

\* lines 567-568 with the exception of a package swallowed: a package that
\* fails is skipped and the loop goes on
RECURSIVE TrustPkgsSkipFailed(_, _, _, _, _, _, _, _)
TrustPkgsSkipFailed(st, pkgs, i, gpg, cs, held, arch, failAt) ==
    IF i > Len(pkgs) THEN st
    ELSE TrustPkgsSkipFailed(
            trust_keyring_pkg([st EXCEPT !.err = NoError], pkgs[i], gpg, cs, held, arch, failAt),
            pkgs, i + 1, gpg, cs, held, arch, failAt)

\* lines 567-568: the packages of one name, from number i on
RECURSIVE TrustPkgs(_, _, _, _, _, _, _, _)
TrustPkgs(st, pkgs, i, gpg, cs, held, arch, failAt) ==
    IF i > Len(pkgs) \/ st.err # NoError THEN st
    ELSE TrustPkgs(trust_keyring_pkg(st, pkgs[i], gpg, cs, held, arch, failAt),
                   pkgs, i + 1, gpg, cs, held, arch, failAt)

\* lines 565-568: the names from number n on
RECURSIVE TrustNames(_, _, _, _, _, _, _, _)
TrustNames(st, names, n, gpg, cs, held, arch, failAt) ==
    IF n > Len(names) \/ st.err # NoError THEN st
    ELSE LET found == lookup_package(names[n])
         IN IF found.err # NoError THEN [st EXCEPT !.err = found.err]
            ELSE TrustNames(TrustPkgs(st, found.pkgs, 1, gpg, cs, held, arch, failAt),
                            names, n + 1, gpg, cs, held, arch, failAt)

\* what the download leaves in the first cache directory: the files got
Downloaded(held, got) == [i \in 1..Len(held) |-> IF i = 1 THEN held[i] \cup got ELSE held[i]]

\* lines 558-568; st also holds the cache contents, which the download changes
add_trust_keyring_pkg(st, pkgnames, gpg, hasCore, cs, arch, failAt, got) ==
    IF ~gpg \/ Len(pkgnames) <= 0 THEN st
    ELSE LET st1 == download(st, pkgnames, hasCore, failAt)
         IN IF st1.err # NoError THEN st1
            ELSE LET st2 == [st1 EXCEPT !.held = Downloaded(@, got)]
                 IN TrustNames(st2, pkgnames, 1, gpg, cs, st2.held, arch, failAt)

PkgNames ==
    { <<"k">>, <<"j">>, <<"g">>, <<"n">>, <<"x", "/", "j">>, <<"z", "/", "k">>,
      <<"a", "/", "b", "/", "c">>, PkgFile }

InitAddTrust ==
    /\ InitNoRegistry
    /\ gpgcheck \in BOOLEAN
    /\ trustdb = TRUE
    /\ coreDb \in BOOLEAN
    /\ extCalls = <<>>
    /\ caches = <<WorkCache, RootCache>>
    /\ cacheFiles \in {<<{}, {}>>, <<{}, {PkgK.filename}>>}
    /\ dirs = {<<>>, WorkPath}
    /\ files = {}
    /\ \E a \in {<<Keyring \o <<"j">> \o DotGpg>>, <<Keyring \o <<"d", "/", "k">> \o DotGpg>>} :
          archives = (PkgK.filename :> <<Keyring \o <<"a">> \o DotGpg, Keyring \o <<"b">>>>)
                     @@ (PkgJ.filename :> a)
    /\ written = {}

AddTrustState == [dirs |-> dirs, files |-> files, written |-> {}, names |-> <<>>,
                  calls |-> <<>>, err |-> NoError, held |-> cacheFiles]

AddTrustKeyringPkg ==
    /\ call.op = "none"
    /\ \E pkgnames \in SeqsUpTo(PkgNames, MaxPkgNames) :
       \E got \in SUBSET {PkgK.filename, PkgJ.filename} :
       \E failAt \in 0..Len(add_trust_keyring_pkg(AddTrustState, pkgnames, gpgcheck, coreDb,
                                                  caches, archives, 0, got).calls) :
          LET st == add_trust_keyring_pkg(AddTrustState, pkgnames, gpgcheck, coreDb,
                                          caches, archives, failAt, got)
          IN /\ dirs' = st.dirs
             /\ files' = st.files
             /\ written' = st.written
             /\ extCalls' = st.calls
             /\ cacheFiles' = st.held
             /\ err' = st.err
             /\ call' = [op |-> "add_trust_keyring_pkg", pkgnames |-> pkgnames]
    /\ UNCHANGED <<config, mirrors, caches, repos, pc, nInit, adds, lines>>
    /\ UNCHANGED <<gpgcheck, trustdb, coreDb, archives>>

NextAddTrust == AddTrustKeyringPkg

SpecAddTrust == InitAddTrust /\ [][NextAddTrust]_vars

AddTrusted == call.op = "add_trust_keyring_pkg"
Registered0(c) == c.ret = 0

\* C8: when add_trust_keyring_pkg fails for one package of the list, no key
\* of any package of that call has been registered: no populate has run
\* for an earlier package.
C8_FailsAsAWhole ==
    (AddTrusted /\ err # NoError) => \A k \in 1..Len(Populates) : ~Registered0(Populates[k])

\* the packages of the names up to the first name that lookup rejects
RECURSIVE PackagesOf(_)
PackagesOf(names) ==
    IF names = <<>> \/ lookup_package(Head(names)).err # NoError THEN <<>>
    ELSE lookup_package(Head(names)).pkgs \o PackagesOf(Tail(names))

LookupFails ==
    \E n \in 1..Len(call.pkgnames) : lookup_package(call.pkgnames[n]).err # NoError

\* the key identifiers of a package: its ".gpg" entries under the prefix
KeyNames(pkg) ==
    LET keys == SelectSeq(archives[pkg.filename],
                          LAMBDA pn : Qualifies(pn) /\ EndsWith(pn, DotGpg))
    IN [i \in 1..Len(keys) |-> StripExt(Drop(keys[i], Len(Keyring)))]

\* C8, amended: the populate calls that have run are those of a prefix of
\* the packages of the list, in order; all but the last succeeded, a failed
\* one is the last, and without an error every package was registered.
C8_PrefixRegistered ==
    AddTrusted =>
        LET flat == PackagesOf(call.pkgnames)
        IN /\ Len(Populates) <= Len(flat)
           /\ \A k \in 1..Len(Populates) :
                /\ k <= Len(flat) => PopulateNames(Populates[k]) = KeyNames(flat[k])
                /\ k < Len(Populates) => Registered0(Populates[k])
           /\ (err # NoError /\ Populates # <<>>) =>
                \/ ~Registered0(Populates[Len(Populates)])
                \/ Len(Populates) < Len(flat)
                \/ LookupFails
           /\ (err = NoError /\ gpgcheck) =>
                /\ ~LookupFails
                /\ Len(Populates) = Len(flat)
                /\ \A k \in 1..Len(Populates) : Registered0(Populates[k])

\* a call that failed at its second package, the first one registered
C8_Witness ==
    /\ AddTrusted
    /\ err # NoError
    /\ Len(PackagesOf(call.pkgnames)) >= 2
    /\ Len(Populates) = 1
    /\ Registered0(Populates[1])

====
